---- MODULE Spec2Model ----
(***************************************************************************)
(* Host side of the PBR sphere renderer: the three Application variants     *)
(* (the sphere-grid variant of src/src/index.ts, the image-based-lighting   *)
(* variant and the single-sphere variant of src/unnamed/part_002), the      *)
(* un-awaited async init(), the animation loop and the GUI callbacks.       *)
(*                                                                         *)
(* JavaScript numbers are modelled as exact rationals <<n, d>> with d > 0,  *)
(* plus NaN (<<0, 0>>) and +Infinity (<<1, 0>>) for the results of a        *)
(* division by zero; rounding of IEEE doubles is not modelled.              *)
(*                                                                         *)
(* Vectors and matrices whose value no property depends on (the camera      *)
(* matrices, a light's positionWS / directionWS) are carried as references; *)
(* the camera's key and pointer handlers and resize() change only those and *)
(* are left out.                                                            *)
(***************************************************************************)
EXTENDS Integers, Sequences, FiniteSets, TLC

VARIABLES
    variant,        \* which Application is running: "grid", "ibl" or "single"
    pc,             \* position of the top-level script / the animate() task
    initPc,         \* position of the async init(): the await it is suspended at
    rafPending,     \* a requestAnimationFrame(animate) callback is scheduled
    frame,          \* number of animate() calls started so far
    stmt,           \* index of the next statement of animate()'s body
    k,              \* index of the next sphere in render()'s draw loop
    updates,        \* update() calls completed within the current animate()
    renders,        \* render() calls started within the current animate()
    returned,       \* render() calls that returned within the current animate()
    calls,          \* GLContext calls made by render() in the current frame
    drawn,          \* the draw call the draw loop has just issued: <<>> or <<snapshot>>
    gl,             \* GLContext state: geometry, program cache, texture table
    defines,        \* the shader's light count defines as the host last set them
    tex,            \* texture fields of the application (null or a loaded texture)
    lights,         \* this._lights
    spheres,        \* this._sphere_attibutes / this._properties
    numberOfSpheres,\* this._numberOfSpheres (grid variant)
    gui,            \* this._guiProperties
    currentEnvironment, \* this._currentEnvironment (ibl variant)
    uniforms,       \* this._uniforms, a map from dotted keys to values
    frag            \* the fragment-shader invocation under evaluation, or NoFragment

vars == <<variant, pc, initPc, rafPending, frame, stmt, k, updates, renders, returned,
          calls, drawn, gl, defines, tex, lights, spheres, numberOfSpheres, gui,
          currentEnvironment, uniforms, frag>>

----------------------------------------------------------------------------
(* Bounds of the exploration.                                               *)

\* animate() calls explored
MaxFrames == 3
\* largest value of the sphere-count slider explored (the slider allows up to SliderMax)
MaxSphereCount == 3
\* lights added to the constructor's light list in SpecLights
MaxLights == 1

----------------------------------------------------------------------------
(* Numbers.                                                                 *)

Abs(n) == IF n < 0 THEN -n ELSE n

RECURSIVE GCD(_, _)
GCD(a, b) == IF b = 0 THEN a ELSE GCD(b, a % b)

NaN == <<0, 0>>
Infinity == <<1, 0>>

\* the rational n/d in lowest terms with a positive denominator (d # 0)
Rat(n, d) ==
    LET g == GCD(Abs(n), Abs(d))
        s == IF d < 0 THEN -1 ELSE 1
    IN  <<(s * n) \div g, (s * d) \div g>>

Num(n) == <<n, 1>>

IsNumber(x) == x[2] > 0

\* JavaScript's a / b: 0/0 is NaN, x/0 is an infinity
Div(a, b) ==
    IF ~IsNumber(a) \/ ~IsNumber(b) THEN NaN
    ELSE IF b[1] = 0 THEN (IF a[1] = 0 THEN NaN ELSE Infinity)
    ELSE Rat(a[1] * b[2], a[2] * b[1])

Mul(a, b) == IF ~IsNumber(a) \/ ~IsNumber(b) THEN NaN ELSE Rat(a[1] * b[1], a[2] * b[2])

Add(a, b) ==
    IF ~IsNumber(a) \/ ~IsNumber(b) THEN NaN
    ELSE Rat(a[1] * b[2] + b[1] * a[2], a[2] * b[2])

Sub(a, b) == Add(a, Mul(Num(-1), b))

Leq(a, b) == IsNumber(a) /\ IsNumber(b) /\ a[1] * b[2] <= b[1] * a[2]

\* Math.max(a, b): NaN if either argument is NaN
MathMax(a, b) ==
    IF ~IsNumber(a) \/ ~IsNumber(b) THEN NaN
    ELSE IF Leq(a, b) THEN b ELSE a

\* a number within [0, 1]
InUnit(x) == IsNumber(x) /\ Leq(Num(0), x) /\ Leq(x, Num(1))

----------------------------------------------------------------------------
(* Program constants.                                                       *)

\* this._numberOfSpheres = 5 in the grid variant's constructor
InitialSphereCount == 5
\* limits of the sphere-count slider
SliderMin == 1
SliderMax == 100
\* const width / const height of the ibl variant's sphere grid
GridWidth == 5
GridHeight == 5
\* a GUI colour channel is divided by 255 before it is stored
ColourScale == 255

Variants == {"grid", "ibl", "single"}

\* enum Environement
Environments == {"ALEXS_APARTMENT", "INTERIOR"}

\* the classes of src/lights/lights: PointLight and DirectionalLight extend
\* PonctualLight; "Other" is any PonctualLight that is neither
LightKinds == {"Point", "Directional", "Other"}

\* one enum order for every variant: DIRECTIONAL first
LightTypeDirectionalFirst(v, name) == IF name = "DIRECTIONAL" THEN 0 ELSE 1

\* enum LightType of each variant
LightType(v, name) ==
    IF v = "grid"
    THEN (IF name = "POINT" THEN 0 ELSE 1)
    ELSE (IF name = "DIRECTIONAL" THEN 0 ELSE 1)

\* the value a light's constructor gave a field that the host never set
CtorDefault == <<>>

\* no fragment-shader invocation is being followed
NoFragment == [pc |-> "none"]

One3 == <<Num(1), Num(1), Num(1)>>

\* GUI colours explored: arrays of three channels in 0..255
GuiColours == {<<255, 255, 255>>, <<0, 128, 255>>}
\* slider positions explored for metallic / roughness (single variant)
UnitValues == {Num(0), Rat(1, 2)}
\* slider positions explored for the light intensity (single variant)
IntensityValues == {Num(10)}
\* outcomes of Math.random() explored for the ibl variant's initial albedo
RandomValues == {Num(0), Rat(1, 2)}
\* the three Math.random() channels of a sphere's initial albedo
RandomColours == {<<a, Rat(1, 4), a>> : a \in RandomValues}
\* outcomes of Texture2D.load: a texture, or null
LoadOutcomes == {"loaded", "null"}

\* a host that stores the GUI channels unscaled
Unscaled255(c) == <<Num(c[1]), Num(c[2]), Num(c[3])>>

\* [c[0] / 255, c[1] / 255, c[2] / 255]
Normalize255(c) ==
    <<Div(Num(c[1]), Num(ColourScale)),
      Div(Num(c[2]), Num(ColourScale)),
      Div(Num(c[3]), Num(ColourScale))>>

----------------------------------------------------------------------------
(* Sphere records.                                                          *)

\* one record of Application._spawnSpheres(n): the loop indices i, j
GridSphere(n, i, j) ==
    LET dist == Rat(11, 10)
        x == Mul(Div(Num(i), Num(n)), dist)
        y == Mul(Div(Num(j), Num(n)), dist)
        recentre == Sub(Num(0), Div(dist, Num(2)))
    IN  [position  |-> <<Mul(Add(x, recentre), Num(n)),
                         Mul(Add(y, recentre), Num(n)),
                         Mul(Add(Num(0), Num(0)), Num(n))>>,
         albedo    |-> One3,
         metallic  |-> Div(Num(i), Sub(Num(n), Num(1))),
         roughness |-> Div(Num(j), Sub(Num(n), Num(1)))]

\* Application._spawnSpheres(n): i is the outer loop, j the inner one
spawnSpheres(n) ==
    [s \in 1..(n * n) |-> GridSphere(n, (s - 1) \div n, (s - 1) % n)]

\* one record of the ibl variant's init(): the loop indices i, j and the
\* Math.random() albedo
IblSphere(i, j, rnd) ==
    [modelMatrix |-> <<Mul(Sub(Num(i), Div(Num(GridWidth), Num(2))), Rat(11, 10)),
                       Mul(Sub(Num(j), Div(Num(GridHeight), Num(2))), Rat(11, 10)),
                       Num(0)>>,
     material |-> [albedo    |-> rnd,
                   metallic  |-> MathMax(Div(Num(i), Sub(Num(GridWidth), Num(1))),
                                         Rat(1, 1000)),
                   roughness |-> Div(Num(j), Sub(Num(GridHeight), Num(1)))]]

\* the 5x5 grid pushed by the ibl variant's init()
IblSpheres(rnd) ==
    [s \in 1..(GridWidth * GridHeight) |->
        IblSphere((s - 1) \div GridHeight, (s - 1) % GridHeight, rnd)]

----------------------------------------------------------------------------
(* The uniform map: a function from dotted keys to values.                  *)

Put(u, key, val) == [x \in (DOMAIN u) \cup {key} |-> IF x = key THEN val ELSE u[x]]

Has(u, key) == key \in DOMAIN u

\* `uLights[${i}].` / `lights[${i}].` for the light at position p of the list
\* (the source's index i is p - 1)
LightKey(v, p, field) ==
    (IF v = "single" THEN "lights[" ELSE "uLights[") \o ToString(p - 1) \o "]." \o field

\* the keys of the material and placement entries of each variant
AlbedoKey(v) ==
    IF v = "grid" THEN "uAttributes.albedo"
    ELSE IF v = "ibl" THEN "uSphere.material.albedo" ELSE "uMaterial.albedo"
MetallicKey(v) ==
    IF v = "grid" THEN "uAttributes.metallic"
    ELSE IF v = "ibl" THEN "uSphere.material.metallic" ELSE "uMaterial.metallic"
RoughnessKey(v) ==
    IF v = "grid" THEN "uAttributes.roughness"
    ELSE IF v = "ibl" THEN "uSphere.material.roughness" ELSE "uMaterial.roughness"
PlacementKey(v) ==
    IF v = "grid" THEN "uAttributes.position" ELSE "uSphere.modelMatrix"

\* the texture stored in this._environments[env].diffuse / .specular
EnvSlot(env, which) == env \o "." \o which

TextureSlots ==
    {"textureExample", "brdfLUT"} \cup
    {EnvSlot(e, w) : e \in Environments, w \in {"diffuse", "specular"}}

----------------------------------------------------------------------------
(* GLContext (src/gl, not part of the sources at hand): modelled from the   *)
(* resource contracts of the specification.                                 *)

\* the context after construction: nothing uploaded, nothing compiled
NewContext ==
    [geometry    |-> FALSE,
     programs    |-> {},
     textures    |-> {},
     gpuUploads  |-> [t \in TextureSlots |-> 0],
     uploadCalls |-> [t \in TextureSlots |-> 0]]

uploadGeometry(g) == [g EXCEPT !.geometry = TRUE]

\* the program cache is keyed by the define set: an unseen define set is
\* compiled, a seen one is reused
compileProgram(g, defs) == [g EXCEPT !.programs = @ \cup {defs}]

\* a context that uploads on every call
uploadTextureTwice(g, t) ==
    [g EXCEPT !.textures = @ \cup {t},
              !.gpuUploads[t] = @ + 1,
              !.uploadCalls[t] = @ + 1]

\* upload-once-then-reuse: a texture already in the table is not uploaded again
uploadTexture(g, t) ==
    [g EXCEPT !.textures = @ \cup {t},
              !.gpuUploads[t] = IF t \in g.textures THEN @ ELSE @ + 1,
              !.uploadCalls[t] = @ + 1]

----------------------------------------------------------------------------
(* Shader defines.                                                          *)

DirectionalCountKey(v) ==
    IF v = "ibl" THEN "LIGHT_COUNT_DIRECTIONAL" ELSE "DIRECTIONAL_LIGHT_COUNT"
PointCountKey(v) ==
    IF v = "ibl" THEN "LIGHT_COUNT_POINT" ELSE "POINT_LIGHT_COUNT"

\* the #define defaults written in the fragment shader text of each variant
\* (the single-sphere variant's shader is not among the sources: 0)
ShaderDefault(v, key) ==
    IF v = "grid" THEN (IF key = "POINT_LIGHT_COUNT" THEN 1 ELSE 0)
    ELSE IF v = "ibl" THEN 1
    ELSE 0

DefineValue(v, defs, key) == IF Has(defs, key) THEN defs[key] ELSE ShaderDefault(v, key)

\* a LIGHT_COUNT that keeps the counts written in the shader text
LightCountOfText(v, defs) ==
    ShaderDefault(v, DirectionalCountKey(v)) + ShaderDefault(v, PointCountKey(v))

\* #define LIGHT_COUNT (directional count + point count), under a define set
LIGHT_COUNT(v, defs) ==
    DefineValue(v, defs, DirectionalCountKey(v)) + DefineValue(v, defs, PointCountKey(v))

\* this._lights.filter(l => l instanceof DirectionalLight).length
DirectionalLightCount(ls) == Cardinality({p \in DOMAIN ls : ls[p].kind = "Directional"})

\* a host that counts every light as a point light
PointLightCountAll(ls) == Len(ls)

\* this._lights.filter(l => l instanceof PointLight).length
PointLightCount(ls) == Cardinality({p \in DOMAIN ls : ls[p].kind = "Point"})

\* the defines render() sets before the light loop
SetLightDefines(v, defs, ls) ==
    IF v = "grid" THEN
        Put(Put(defs, "DIRECTIONAL_LIGHT_COUNT", DirectionalLightCount(ls)),
            "POINT_LIGHT_COUNT", PointLightCount(ls))
    ELSE IF v = "ibl" THEN
        Put(Put(Put(Put(Put(defs,
            "LIGHTS_COUNT", Len(ls)),
            "LIGHT_COUNT_DIRECTIONAL", DirectionalLightCount(ls)),
            "LIGHT_COUNT_POINT", PointLightCount(ls)),
            "LIGHT_TYPE_DIRECTIONAL", LightType(v, "DIRECTIONAL")),
            "LIGHT_TYPE_POINT", LightType(v, "POINT"))
    ELSE defs

----------------------------------------------------------------------------
(* render(): uniform assembly.                                              *)

\* a reference to a vector field of the light at position p
FieldOf(p, field) == [light |-> p, field |-> field]

\* the light loop of render() fails at this light
UnknownLightThrows(v, l) == v = "ibl" /\ l.kind \notin {"Point", "Directional"}

\* one iteration of the light loop: the entries written for the light at p
LightEntries(v, u, ls, p) ==
    LET l == ls[p]
        common(w) == Put(Put(w, LightKey(v, p, "color"), l.color),
                         LightKey(v, p, "intensity"), l.intensity)
    IN  IF v = "grid" THEN
            common(Put(Put(u,
                LightKey(v, p, "type"),
                    IF l.kind = "Directional" THEN LightType(v, "DIRECTIONAL")
                                              ELSE LightType(v, "POINT")),
                LightKey(v, p, "position"),
                    IF l.kind = "Directional" THEN FieldOf(p, "directionWS")
                                              ELSE FieldOf(p, "positionWS")))
        ELSE IF v = "ibl" THEN
            IF l.kind = "Directional" THEN
                common(Put(Put(u, LightKey(v, p, "type"), LightType(v, "DIRECTIONAL")),
                           LightKey(v, p, "direction"), FieldOf(p, "directionWS")))
            ELSE IF l.kind = "Point" THEN
                common(Put(Put(u, LightKey(v, p, "type"), LightType(v, "POINT")),
                           LightKey(v, p, "position"), FieldOf(p, "positionWS")))
            ELSE u
        ELSE
            IF l.kind = "Directional" THEN
                common(Put(Put(u, LightKey(v, p, "type"), LightType(v, "DIRECTIONAL")),
                           LightKey(v, p, "position"), FieldOf(p, "directionWS")))
            ELSE IF l.kind = "Point" THEN
                common(Put(Put(u, LightKey(v, p, "type"), LightType(v, "POINT")),
                           LightKey(v, p, "position"), FieldOf(p, "positionWS")))
            ELSE u

\* the light loop from position p on; it stops at the light that throws
RECURSIVE LightLoop(_, _, _, _)
LightLoop(v, u, ls, p) ==
    IF p > Len(ls) THEN u
    ELSE IF UnknownLightThrows(v, ls[p]) THEN u
    ELSE LightLoop(v, LightEntries(v, u, ls, p), ls, p + 1)

\* render() throws in its light loop
RenderThrows(v, ls) == \E p \in DOMAIN ls : UnknownLightThrows(v, ls[p])

\* the camera entries
CameraEntries(u) ==
    Put(Put(u, "uCamera.WsToCs", "projection * view"), "uCamera.position", "camera.position")

\* ibl variant: the uploadTexture calls of render() for the current environment
UploadEnvironment(g, t, env) ==
    LET d  == EnvSlot(env, "diffuse")
        sp == EnvSlot(env, "specular")
        g1 == IF t[d] # "null" THEN uploadTexture(g, d) ELSE g
    IN  IF t[sp] # "null" THEN uploadTexture(g1, sp) ELSE g1

\* ibl variant: the texture entries render() writes
EnvironmentEntries(u, t, env) ==
    LET d  == EnvSlot(env, "diffuse")
        sp == EnvSlot(env, "specular")
        u1 == IF t["brdfLUT"] # "null" THEN Put(u, "uEnvironment.brdfLUT", "brdfLUT") ELSE u
        u2 == IF t[d] # "null" THEN Put(u1, "uEnvironment.diffuse", d) ELSE u1
    IN  IF t[sp] # "null" THEN Put(u2, "uEnvironment.specular", sp) ELSE u2

\* the global state calls at the top of render()
RenderStateCalls(v) ==
    IF v = "single" THEN <<"clear", "setDepthTest", "setCulling">>
    ELSE <<"clear", "setDepthTest">>

\* a render() that sets the depth test again before every draw
DrawCallsWithState(v) == <<"setDepthTest", "draw">>

\* the GLContext calls of one iteration of the draw loop
DrawCalls(v) == <<"draw">>

\* everything render() writes to the uniform map before its draw loop
AssembleUniforms(v, u, g, t, ls, env) ==
    IF v = "grid" THEN
        LightLoop(v, CameraEntries(Put(u, AlbedoKey(v), Normalize255(g.albedo))), ls, 1)
    ELSE IF v = "ibl" THEN
        LightLoop(v, EnvironmentEntries(CameraEntries(u), t, env), ls, 1)
    ELSE
        CameraEntries(LightLoop(v,
            Put(Put(Put(u, AlbedoKey(v), Normalize255(g.albedo)),
                    MetallicKey(v), g.metallic),
                RoughnessKey(v), g.roughness),
            ls, 1))

\* the entries the draw loop writes for sphere s before its draw call
SphereEntries(v, u, sph, s) ==
    IF v = "grid" THEN
        Put(Put(Put(u, PlacementKey(v), sph[s].position),
                MetallicKey(v), sph[s].metallic),
            RoughnessKey(v), sph[s].roughness)
    ELSE IF v = "ibl" THEN
        Put(Put(Put(Put(u, PlacementKey(v), sph[s].modelMatrix),
                    AlbedoKey(v), sph[s].material.albedo),
                MetallicKey(v), sph[s].material.metallic),
            RoughnessKey(v), sph[s].material.roughness)
    ELSE u

\* the number of draw calls of one render()
DrawCount(v, sph) == IF v = "single" THEN 1 ELSE Len(sph)

----------------------------------------------------------------------------
(* The state after `new Application(canvas)`.                               *)

NoTextures == [t \in TextureSlots |-> "null"]

EmptyMap == <<>>

\* this._guiProperties of the three variants in one record: albedo is
\* albedo / material.albedo, light is light_colors / light.color; environment
\* belongs to the ibl variant, metallic, roughness and intensity to the
\* single-sphere variant
GuiProperties(a) ==
    [albedo      |-> a,
     light       |-> <<255, 255, 255>>,
     environment |-> "ALEXS_APARTMENT",
     metallic    |-> Num(0),
     roughness   |-> Num(0),
     intensity   |-> Num(1)]

\* a light as its constructor and the host's setters leave it
Light(kind, color, intensity) == [kind |-> kind, color |-> color, intensity |-> intensity]

\* this._lights after the constructor
ConstructedLights(v) ==
    IF v = "grid" THEN <<Light("Point", One3, Num(1))>>
    ELSE IF v = "ibl" THEN <<>>
    ELSE <<Light("Point", CtorDefault, CtorDefault)>>

\* this._uniforms after the constructor
ConstructedUniforms(v) ==
    IF v = "grid"
    THEN Put(Put(EmptyMap, "uAttributes.albedo", <<Num(0), Num(0), Num(0)>>),
             "uCamera.WsToCs", "identity")
    ELSE EmptyMap

Constructed(v, ls, a) ==
    /\ variant = v
    /\ pc = "script_init"
    /\ initPc = "start"
    /\ rafPending = FALSE
    /\ frame = 0
    /\ stmt = 1
    /\ k = 1
    /\ updates = 0
    /\ renders = 0
    /\ returned = 0
    /\ calls = <<>>
    /\ drawn = <<>>
    /\ gl = NewContext
    /\ defines = EmptyMap
    /\ tex = NoTextures
    /\ lights = ls
    /\ spheres = IF v = "grid" THEN spawnSpheres(InitialSphereCount) ELSE <<>>
    /\ numberOfSpheres = InitialSphereCount
    /\ gui = GuiProperties(a)
    /\ currentEnvironment = "ALEXS_APARTMENT"
    /\ uniforms = ConstructedUniforms(v)

\* the ibl variant draws its initial GUI albedo with Math.random()
Init ==
    \E v \in Variants :
        \E a \in (IF v = "ibl" THEN GuiColours ELSE {<<255, 255, 255>>}) :
            /\ Constructed(v, ConstructedLights(v), a)
            /\ frag = NoFragment

----------------------------------------------------------------------------
(* async init().                                                            *)

\* the awaits of init() in order; init() is suspended at initPc
Awaits(v) ==
    IF v = "grid" THEN <<"textureExample">>
    ELSE IF v = "ibl" THEN
        <<"brdfLUT", EnvSlot("ALEXS_APARTMENT", "diffuse"), EnvSlot("ALEXS_APARTMENT", "specular"),
          EnvSlot("INTERIOR", "diffuse"), EnvSlot("INTERIOR", "specular")>>
    ELSE <<>>

AwaitAfter(v, p) == IF p < Len(Awaits(v)) THEN Awaits(v)[p + 1] ELSE "done"

AwaitIndex(v, slot) == CHOOSE p \in DOMAIN Awaits(v) : Awaits(v)[p] = slot

\* an init() that awaits its first texture before it uploads the geometry
\* and compiles the program
InitStartLate ==
    /\ pc = "script_init"
    /\ pc' = "script_animate"
    /\ initPc' = AwaitAfter(variant, 0)
    /\ UNCHANGED <<frag, variant, rafPending, frame, stmt, k, updates, renders, returned, calls,
                   drawn, gl, defines, tex, lights, spheres, numberOfSpheres, gui,
                   currentEnvironment, uniforms>>

\* the script calls app.init(): init() runs up to its first await (to its
\* end in the single-sphere variant) and the script goes on to animate()
InitStart ==
    /\ pc = "script_init"
    /\ pc' = "script_animate"
    /\ gl' = compileProgram(uploadGeometry(gl), defines)
    /\ initPc' = AwaitAfter(variant, 0)
    /\ UNCHANGED <<frag, variant, rafPending, frame, stmt, k, updates, renders, returned, calls,
                   drawn, defines, tex, lights, spheres, numberOfSpheres, gui,
                   currentEnvironment, uniforms>>

\* a Texture2D.load settles and init() resumes up to its next await: the
\* texture field is assigned; textureExample and brdfLUT are uploaded when
\* not null; after the last await of the ibl variant the sphere grid and the
\* directional light are pushed
InitResume(outcome, rnd) ==
    /\ pc = "idle"
    /\ initPc \notin {"start", "done"}
    /\ tex' = [tex EXCEPT ![initPc] = outcome]
    /\ gl' = IF initPc \in {"textureExample", "brdfLUT"} /\ outcome # "null"
             THEN uploadTexture(gl, initPc) ELSE gl
    /\ initPc' = AwaitAfter(variant, AwaitIndex(variant, initPc))
    /\ IF variant = "ibl" /\ initPc' = "done"
       THEN /\ spheres' = spheres \o IblSpheres(rnd)
            /\ lights' = Append(lights, Light("Directional", One3, Num(1)))
       ELSE UNCHANGED <<spheres, lights>>
    /\ UNCHANGED <<frag, variant, pc, rafPending, frame, stmt, k, updates, renders, returned,
                   calls, drawn, defines, numberOfSpheres, gui, currentEnvironment,
                   uniforms>>

----------------------------------------------------------------------------
(* animate(): update(), render(), requestAnimationFrame(animate).           *)

\* an animate() that schedules the next frame before it renders
AnimateBodyScheduleFirst == <<"update", "requestAnimationFrame", "render">>

\* the statements of animate() in order
AnimateBody == <<"update", "render", "requestAnimationFrame">>

AtStatement(name) == pc = "animate" /\ stmt <= Len(AnimateBody) /\ AnimateBody[stmt] = name

\* animate() is entered: called by the script after app.init(), or as the
\* scheduled animation frame callback
animate ==
    /\ \/ pc = "script_animate"
       \/ pc = "idle" /\ rafPending
    /\ frame < MaxFrames
    /\ pc' = "animate"
    /\ stmt' = 1
    /\ rafPending' = FALSE
    /\ frame' = frame + 1
    /\ updates' = 0
    /\ renders' = 0
    /\ returned' = 0
    /\ calls' = <<>>
    /\ drawn' = <<>>
    /\ UNCHANGED <<frag, variant, initPc, k, gl, defines, tex, lights, spheres, numberOfSpheres,
                   gui, currentEnvironment, uniforms>>

\* update(): empty in the grid and single-sphere variants; the ibl variant
\* copies the GUI albedo into every sphere and follows the GUI environment
update ==
    /\ AtStatement("update")
    /\ stmt' = stmt + 1
    /\ updates' = updates + 1
    /\ IF variant = "ibl"
       THEN /\ spheres' = [s \in DOMAIN spheres |->
                              [spheres[s] EXCEPT !.material.albedo = Normalize255(gui.albedo)]]
            /\ currentEnvironment' = gui.environment
       ELSE UNCHANGED <<spheres, currentEnvironment>>
    /\ UNCHANGED <<frag, variant, pc, initPc, rafPending, frame, k, renders, returned, calls,
                   drawn, gl, defines, tex, lights, numberOfSpheres, gui, uniforms>>

\* render() up to its draw loop: the global state calls, the texture uploads
\* of the ibl variant, the light defines and the uniform assembly; an unknown
\* light makes the ibl variant throw, which ends animate()
render ==
    /\ AtStatement("render")
    /\ renders' = renders + 1
    /\ calls' = calls \o RenderStateCalls(variant)
    /\ gl' = IF variant = "ibl" THEN UploadEnvironment(gl, tex, currentEnvironment) ELSE gl
    /\ uniforms' = AssembleUniforms(variant, uniforms, gui, tex, lights, currentEnvironment)
    /\ IF RenderThrows(variant, lights)
       THEN /\ pc' = "thrown"
            /\ defines' = SetLightDefines(variant, defines, lights)
       ELSE /\ pc' = "draw"
            /\ defines' = IF variant = "ibl"
                          THEN Put(SetLightDefines(variant, defines, lights),
                                   "SPHERES_COUNT", Len(spheres))
                          ELSE SetLightDefines(variant, defines, lights)
    /\ k' = 1
    /\ UNCHANGED <<frag, variant, initPc, rafPending, frame, stmt, updates, returned, drawn, tex,
                   lights, spheres, numberOfSpheres, gui, currentEnvironment>>

\* what GLContext.draw is handed and finds at one draw call
DrawSnapshot(s, u, g, defs) ==
    [sphere     |-> s,
     uniforms   |-> u,
     geometry   |-> g.geometry,
     compiled   |-> g.programs # {},
     textures   |-> g.textures,
     lightCount |-> LIGHT_COUNT(variant, defs),
     hostDefines |-> Has(defs, DirectionalCountKey(variant)) /\ Has(defs, PointCountKey(variant))]

\* one iteration of the draw loop: the sphere's entries are written and
\* GLContext.draw is called with the program of the current define set
renderDraw ==
    /\ pc = "draw"
    /\ k <= DrawCount(variant, spheres)
    /\ uniforms' = SphereEntries(variant, uniforms, spheres, k)
    /\ calls' = calls \o DrawCalls(variant)
    /\ drawn' = <<DrawSnapshot(k, uniforms', gl, defines)>>
    /\ gl' = compileProgram(gl, defines)
    /\ k' = k + 1
    /\ UNCHANGED <<frag, variant, pc, initPc, rafPending, frame, stmt, updates, renders, returned,
                   defines, tex, lights, spheres, numberOfSpheres, gui, currentEnvironment>>

\* the draw loop is over and render() returns to animate()
renderReturn ==
    /\ pc = "draw"
    /\ k > DrawCount(variant, spheres)
    /\ pc' = "animate"
    /\ stmt' = stmt + 1
    /\ returned' = returned + 1
    /\ drawn' = <<>>
    /\ UNCHANGED <<frag, variant, initPc, rafPending, frame, k, updates, renders, calls, gl,
                   defines, tex, lights, spheres, numberOfSpheres, gui, currentEnvironment,
                   uniforms>>

\* window.requestAnimationFrame(animate)
requestAnimationFrame ==
    /\ AtStatement("requestAnimationFrame")
    /\ rafPending' = TRUE
    /\ stmt' = stmt + 1
    /\ UNCHANGED <<frag, variant, pc, initPc, frame, k, updates, renders, returned, calls, drawn,
                   gl, defines, tex, lights, spheres, numberOfSpheres, gui,
                   currentEnvironment, uniforms>>

\* animate() returns and the event loop is free again
animateReturn ==
    /\ pc = "animate"
    /\ stmt > Len(AnimateBody)
    /\ pc' = "idle"
    /\ UNCHANGED <<frag, variant, initPc, rafPending, frame, stmt, k, updates, renders, returned,
                   calls, drawn, gl, defines, tex, lights, spheres, numberOfSpheres, gui,
                   currentEnvironment, uniforms>>

----------------------------------------------------------------------------
(* GUI callbacks; they run between tasks of the event loop.                 *)

\* the albedo colour picker (all variants): only the GUI property changes
onAlbedoChange(c) ==
    /\ pc = "idle"
    /\ gui' = [gui EXCEPT !.albedo = c]
    /\ UNCHANGED <<frag, variant, pc, initPc, rafPending, frame, stmt, k, updates, renders,
                   returned, calls, drawn, gl, defines, tex, lights, spheres,
                   numberOfSpheres, currentEnvironment, uniforms>>

\* the light colour picker (grid and single-sphere variants): every light
\* gets the colour divided by 255
onLightColorChange(c) ==
    /\ pc = "idle"
    /\ variant \in {"grid", "single"}
    /\ gui' = [gui EXCEPT !.light = c]
    /\ lights' = [p \in DOMAIN lights |-> [lights[p] EXCEPT !.color = Normalize255(c)]]
    /\ UNCHANGED <<frag, variant, pc, initPc, rafPending, frame, stmt, k, updates, renders,
                   returned, calls, drawn, gl, defines, tex, spheres, numberOfSpheres,
                   currentEnvironment, uniforms>>

\* the sphere-count slider (grid variant)
onNumberOfSpheresChange(n) ==
    /\ pc = "idle"
    /\ variant = "grid"
    /\ n >= SliderMin /\ n <= SliderMax
    /\ numberOfSpheres' = n
    /\ spheres' = spawnSpheres(n)
    /\ UNCHANGED <<frag, variant, pc, initPc, rafPending, frame, stmt, k, updates, renders,
                   returned, calls, drawn, gl, defines, tex, lights, gui,
                   currentEnvironment, uniforms>>

\* the environment selector (ibl variant)
onEnvironmentChange(e) ==
    /\ pc = "idle"
    /\ variant = "ibl"
    /\ gui' = [gui EXCEPT !.environment = e]
    /\ UNCHANGED <<frag, variant, pc, initPc, rafPending, frame, stmt, k, updates, renders,
                   returned, calls, drawn, gl, defines, tex, lights, spheres,
                   numberOfSpheres, currentEnvironment, uniforms>>

\* the metallic slider (single-sphere variant)
onMetallicChange(m) ==
    /\ pc = "idle"
    /\ variant = "single"
    /\ gui' = [gui EXCEPT !.metallic = m]
    /\ UNCHANGED <<frag, variant, pc, initPc, rafPending, frame, stmt, k, updates, renders,
                   returned, calls, drawn, gl, defines, tex, lights, spheres,
                   numberOfSpheres, currentEnvironment, uniforms>>

\* the roughness slider (single-sphere variant)
onRoughnessChange(r) ==
    /\ pc = "idle"
    /\ variant = "single"
    /\ gui' = [gui EXCEPT !.roughness = r]
    /\ UNCHANGED <<frag, variant, pc, initPc, rafPending, frame, stmt, k, updates, renders,
                   returned, calls, drawn, gl, defines, tex, lights, spheres,
                   numberOfSpheres, currentEnvironment, uniforms>>

\* the light intensity slider (single-sphere variant)
onIntensityChange(x) ==
    /\ pc = "idle"
    /\ variant = "single"
    /\ gui' = [gui EXCEPT !.intensity = x]
    /\ lights' = [p \in DOMAIN lights |-> [lights[p] EXCEPT !.intensity = x]]
    /\ UNCHANGED <<frag, variant, pc, initPc, rafPending, frame, stmt, k, updates, renders,
                   returned, calls, drawn, gl, defines, tex, spheres, numberOfSpheres,
                   currentEnvironment, uniforms>>

----------------------------------------------------------------------------

Next ==
    \/ InitStart
    \/ \E o \in LoadOutcomes, rnd \in RandomColours : InitResume(o, rnd)
    \/ animate
    \/ update
    \/ render
    \/ renderDraw
    \/ renderReturn
    \/ requestAnimationFrame
    \/ animateReturn
    \/ \E c \in GuiColours : onAlbedoChange(c)
    \/ \E c \in GuiColours : onLightColorChange(c)
    \/ \E n \in 1..MaxSphereCount : onNumberOfSpheresChange(n)
    \/ \E e \in Environments : onEnvironmentChange(e)
    \/ \E m \in UnitValues : onMetallicChange(m)
    \/ \E r \in UnitValues : onRoughnessChange(r)
    \/ \E x \in IntensityValues : onIntensityChange(x)

Spec == Init /\ [][Next]_vars

----------------------------------------------------------------------------
(* The same program with further lights in this._lights.  The constructors  *)
(* at hand build PointLight and DirectionalLight only; the field's type,    *)
(* Array<PonctualLight>, admits any other PonctualLight, which is the input *)
(* the light loop's unknown-light branch is written for.                    *)

ExtraLights ==
    UNION {[1..n -> {Light(kind, One3, Num(1)) : kind \in LightKinds}] : n \in 0..MaxLights}

InitLights ==
    \E v \in Variants :
        \E a \in (IF v = "ibl" THEN GuiColours ELSE {<<255, 255, 255>>}) :
            \E extra \in ExtraLights :
                /\ Constructed(v, ConstructedLights(v) \o extra, a)
                /\ frag = NoFragment

SpecLights == InitLights /\ [][Next]_vars

----------------------------------------------------------------------------
(* Properties.                                                              *)

HasDraw == drawn # <<>>

TextureKeys == {"uEnvironment.brdfLUT", "uEnvironment.diffuse", "uEnvironment.specular"}

\* the number of entries of the call log equal to name
CountCalls(name) == Cardinality({i \in DOMAIN calls : calls[i] = name})

C2_ResourcesReadyAtDraw ==
    HasDraw =>
        /\ drawn[1].geometry
        /\ drawn[1].compiled
        /\ \A key \in TextureKeys \cap DOMAIN drawn[1].uniforms :
               drawn[1].uniforms[key] \in drawn[1].textures

\* C2 witness: an ibl draw call, issued while init() was suspended and
\* resumed between frames, with the LUT and the diffuse texture in the map
C2_Witness ==
    /\ HasDraw
    /\ variant = "ibl"
    /\ Has(drawn[1].uniforms, "uEnvironment.brdfLUT")
    /\ Has(drawn[1].uniforms, "uEnvironment.diffuse")

\* C3: at every draw call of the variants whose host sets the light count
\* defines, the LIGHT_COUNT of the program drawn with equals the length of
\* the active light list.
C3_LightCountMatches ==
    (HasDraw /\ variant \in {"grid", "ibl"}) =>
        /\ drawn[1].hostDefines
        /\ drawn[1].lightCount = Len(lights)

\* C3 witness: an ibl draw call after init() pushed the directional light
C3_Witness ==
    /\ HasDraw
    /\ variant = "ibl"
    /\ Len(lights) = 1
    /\ drawn[1].lightCount = 1

\* C4: in the ibl variant no draw call is issued while uEnvironment.diffuse
\* is absent from the uniform map or names a texture that was not uploaded.
C4_DiffuseRequiredAtDraw ==
    (HasDraw /\ variant = "ibl") =>
        /\ Has(drawn[1].uniforms, "uEnvironment.diffuse")
        /\ drawn[1].uniforms["uEnvironment.diffuse"] \in drawn[1].textures

C6_StateOncePerFrame ==
    renders >= 1 =>
        /\ CountCalls("clear") = 1
        /\ CountCalls("setDepthTest") = 1
        /\ CountCalls("setCulling") = (IF variant = "single" THEN 1 ELSE 0)
        /\ \A i \in DOMAIN calls : \A j \in DOMAIN calls :
               (i < j /\ calls[i] = "draw") => calls[j] = "draw"

\* C6 witness: a frame of the grid variant with several draw calls
C6_Witness ==
    /\ variant = "grid"
    /\ CountCalls("draw") >= 4

\* C7: at the draw call of sphere s the material and placement entries of
\* the uniform map are the values of sphere s's own record.
C7_OwnAttributesAtDraw ==
    (HasDraw /\ variant \in {"grid", "ibl"}) =>
        LET u == drawn[1].uniforms
            s == spheres[drawn[1].sphere]
        IN  IF variant = "grid"
            THEN /\ u[AlbedoKey(variant)] = s.albedo
                 /\ u[MetallicKey(variant)] = s.metallic
                 /\ u[RoughnessKey(variant)] = s.roughness
                 /\ u[PlacementKey(variant)] = s.position
            ELSE /\ u[AlbedoKey(variant)] = s.material.albedo
                 /\ u[MetallicKey(variant)] = s.material.metallic
                 /\ u[RoughnessKey(variant)] = s.material.roughness
                 /\ u[PlacementKey(variant)] = s.modelMatrix

\* C8: every sphere record has a metallic and a roughness that are numbers
\* within [0, 1], for every sphere count of the slider and for the ibl grid.
C8_MaterialInUnitRange ==
    \A s \in DOMAIN spheres :
        IF variant = "grid"
        THEN InUnit(spheres[s].metallic) /\ InUnit(spheres[s].roughness)
        ELSE InUnit(spheres[s].material.metallic) /\ InUnit(spheres[s].material.roughness)

\* a uniform channel x equals the GUI channel c divided by 255
IsScaled(x, c) == IsNumber(x) /\ x[1] * ColourScale = c * x[2]

\* C9: at every draw call each channel of the albedo entry is the GUI albedo
\* channel divided by 255 and lies in [0, 1]; each channel of a light colour
\* entry the host has set lies in [0, 1] and, where the GUI has a light
\* colour, is that colour's channel divided by 255.
C9_ColoursNormalized ==
    HasDraw =>
        LET u == drawn[1].uniforms IN
        /\ \A c \in 1..3 :
               /\ IsScaled(u[AlbedoKey(variant)][c], gui.albedo[c])
               /\ InUnit(u[AlbedoKey(variant)][c])
        /\ \A p \in DOMAIN lights :
               LET key == LightKey(variant, p, "color") IN
               (Has(u, key) /\ u[key] # CtorDefault) =>
                   \A c \in 1..3 :
                       /\ InUnit(u[key][c])
                       /\ variant \in {"grid", "single"} => IsScaled(u[key][c], gui.light[c])

\* C9 witness: a draw call after the GUI changed both colours
C9_Witness ==
    /\ HasDraw
    /\ variant = "grid"
    /\ gui.albedo = <<0, 128, 255>>
    /\ gui.light = <<0, 128, 255>>
    /\ drawn[1].uniforms[LightKey(variant, 1, "color")][2] = Rat(128, 255)

\* C10: within one animate() update() completes exactly once before
\* render() starts, render() runs exactly once, and the next frame is
\* scheduled only after render() returned.
C10_FrameOrder ==
    /\ updates <= 1 /\ renders <= 1 /\ returned <= renders
    /\ renders = 1 => updates = 1
    /\ (rafPending /\ pc \in {"animate", "draw"}) => returned = 1
    /\ pc = "idle" => (updates = 1 /\ renders = 1 /\ returned = 1 /\ rafPending)

\* C10 witness: the second frame has run to its end
C10_Witness == pc = "idle" /\ frame = 2 /\ rafPending

-----------------------------------------------------------------------------
(* GLSL floats.  A float of the shaders is a fixed-point number: the integer *)
(* x stands for x / Scale.  Undefined stands for every result the language   *)
(* leaves undefined or non-finite: x / 0, pow of a negative base, sqrt of a  *)
(* negative number, and whatever is computed from one of these.  Products    *)
(* and quotients are truncated toward zero, so multiplying by 0.0 or by 1.0  *)
(* is exact, as it is for floats.                                            *)

\* precision highp float: Limb * Limb units to 1.0
Limb == 10000

Scale == Limb * Limb

Undefined == 2000000000

Defined(x) == x # Undefined

Sign(x) == IF x < 0 THEN -1 ELSE 1

\* the float written n / d in the shader text, d a power of ten below 2^31
Lit(n, d) == n * (Scale \div d)

\* a / n for an integer n > 0, truncated toward zero
Over(a, n) == Sign(a) * (Abs(a) \div n)

FAdd(a, b) == IF Defined(a) /\ Defined(b) THEN a + b ELSE Undefined

FSub(a, b) == IF Defined(a) /\ Defined(b) THEN a - b ELSE Undefined

FMul(a, b) ==
    IF Defined(a) /\ Defined(b)
    THEN LET x == Abs(a)
             y == Abs(b)
             x1 == x \div Limb
             x0 == x % Limb
             y1 == y \div Limb
             y0 == y % Limb
             mid == x1 * y0 + x0 * y1
         IN  Sign(a) * Sign(b)
               * (x1 * y1 + (mid \div Limb) + (((mid % Limb) * Limb + x0 * y0) \div Scale))
    ELSE Undefined

\* long division of x * Scale by y > 0 for x >= 0, one decimal digit of Scale
\* at a time: the pair <<q, r>> stands for q * y + r with 0 <= r < y
Quotient(x, y) ==
    LET double(p) == IF 2 * p[2] >= y THEN <<2 * p[1] + 1, 2 * p[2] - y>>
                     ELSE <<2 * p[1], 2 * p[2]>>
        plus(p, q) == IF p[2] + q[2] >= y THEN <<p[1] + q[1] + 1, p[2] + q[2] - y>>
                      ELSE <<p[1] + q[1], p[2] + q[2]>>
        times10(p) == double(plus(double(double(p)), p))
        times10000(p) == times10(times10(times10(times10(p))))
    IN  times10000(times10000(<<x \div y, x % y>>))[1]

FDiv(a, b) ==
    IF Defined(a) /\ Defined(b) /\ b # 0
    THEN Sign(a) * Sign(b) * Quotient(Abs(a), Abs(b))
    ELSE Undefined

\* the rational <<n, d>> of the host as a float; NaN and Infinity are not finite
ToFloat(r) ==
    IF r[2] = 0 THEN Undefined
    ELSE Sign(r[1]) * Sign(r[2]) * Quotient(Abs(r[1]), Abs(r[2]))

FMax(a, b) == IF Defined(a) /\ Defined(b) THEN (IF a < b THEN b ELSE a) ELSE Undefined

\* mix(x, y, a) = x * (1 - a) + y * a
mix(x, y, a) == FAdd(FMul(x, FSub(Scale, a)), FMul(y, a))

\* lessThanEqual as a float: 1.0 or 0.0
lessThanEqual(x, y) == IF Defined(x) /\ Defined(y) THEN (IF x <= y THEN Scale ELSE 0) ELSE Undefined

\* Newton's iteration from above
sqrt(x) ==
    LET RECURSIVE iter(_)
        iter(s) == LET t == (s + FDiv(x, s)) \div 2
                   IN  IF t >= s THEN s ELSE iter(t)
    IN  IF ~Defined(x) \/ x < 0 THEN Undefined
        ELSE IF x = 0 THEN 0
        ELSE iter((x + Scale) \div 2)

\* exp by its Taylor series for |t| <= 3, by exp(t / 2)^2 beyond
RECURSIVE exp(_)
exp(t) ==
    LET RECURSIVE series(_, _, _)
        series(term, n, sum) ==
            IF term = 0 THEN sum ELSE series(Over(FMul(term, t), n), n + 1, sum + term)
    IN  IF ~Defined(t) THEN Undefined
        ELSE IF Abs(t) > 3 * Scale
             THEN LET h == exp(Over(t, 2)) IN FMul(h, h)
             ELSE series(Scale, 1, 0)

\* log by 2 * (z + z^3/3 + z^5/5 + ...), z = (x - 1) / (x + 1), for x in
\* [1/2, 1]; by multiples of ln 2 = 0.69314718 outside
RECURSIVE log(_)
log(x) ==
    LET z == FDiv(x - Scale, x + Scale)
        RECURSIVE series(_, _, _)
        series(power, n, sum) ==
            IF power = 0 THEN 2 * sum
            ELSE series(FMul(power, FMul(z, z)), n + 2, sum + Over(power, n))
    IN  IF ~Defined(x) \/ x <= 0 THEN Undefined
        ELSE IF x < Scale \div 256 THEN log(256 * x) - 8 * Lit(69314718, 100000000)
        ELSE IF x < Scale \div 2 THEN log(2 * x) - Lit(69314718, 100000000)
        ELSE IF x > Scale THEN log(x \div 2) + Lit(69314718, 100000000)
        ELSE series(z, 1, 0)

\* pow(x, y) = exp(y * log(x)); undefined for x < 0 and for x = 0, y <= 0
RECURSIVE pow(_, _)
pow(x, y) ==
    IF ~Defined(x) \/ ~Defined(y) \/ x < 0 \/ (x = 0 /\ y <= 0) THEN Undefined
    ELSE IF x = 0 THEN 0
    ELSE IF Abs(y) > Scale THEN LET h == pow(x, Over(y, 2)) IN FMul(h, h)
    ELSE exp(FMul(y, log(x)))

\* #define PI 3.1415926535897932384626433832795
PI == 314159265

\* atan(y, x): the angle of (x, y) in [-PI, PI]; undefined if both are 0.
\* atan(t) = t - t^3/3 + t^5/5 - ... after halving the angle once
atan(y, x) ==
    LET RECURSIVE series(_, _, _, _, _)
        series(t2, power, n, sgn, sum) ==
            IF power = 0 THEN sum
            ELSE series(t2, FMul(power, t2), n + 2, 0 - sgn, sum + sgn * Over(power, n))
        unit(t) == LET h == FDiv(t, Scale + sqrt(Scale + FMul(t, t)))
                   IN  2 * series(FMul(h, h), h, 1, 1, 0)
        ax == Abs(x)
        ay == Abs(y)
        a  == IF ay <= ax THEN unit(FDiv(ay, ax)) ELSE Over(PI, 2) - unit(FDiv(ax, ay))
        b  == IF x < 0 THEN PI - a ELSE a
    IN  IF ~Defined(x) \/ ~Defined(y) \/ (x = 0 /\ y = 0) THEN Undefined
        ELSE IF y < 0 THEN 0 - b ELSE b

\* asin(y) in [-PI/2, PI/2]; undefined if |y| > 1
asin(y) ==
    IF ~Defined(y) \/ Abs(y) > Scale THEN Undefined
    ELSE atan(y, sqrt(Scale - FMul(y, y)))

----------------------------------------------------------------------------
(* vec3 and vec4 values are tuples of floats.                               *)

vec3(x) == <<x, x, x>>

vec4(v, a) == <<v[1], v[2], v[3], a>>

rgb(v) == <<v[1], v[2], v[3]>>

VAdd(a, b) == <<FAdd(a[1], b[1]), FAdd(a[2], b[2]), FAdd(a[3], b[3])>>

VSub(a, b) == <<FSub(a[1], b[1]), FSub(a[2], b[2]), FSub(a[3], b[3])>>

VMul(a, b) == <<FMul(a[1], b[1]), FMul(a[2], b[2]), FMul(a[3], b[3])>>

VScale(a, s) == <<FMul(a[1], s), FMul(a[2], s), FMul(a[3], s)>>

VOver(a, s) == <<FDiv(a[1], s), FDiv(a[2], s), FDiv(a[3], s)>>

VDefined(a) == \A c \in DOMAIN a : Defined(a[c])

dot(a, b) == FAdd(FAdd(FMul(a[1], b[1]), FMul(a[2], b[2])), FMul(a[3], b[3]))

length(a) == sqrt(dot(a, a))

\* normalize(v) = v / length(v); undefined for the zero vector
normalize(a) == VOver(a, length(a))

----------------------------------------------------------------------------
(* The fragment shaders.  The grid variant runs the shader that reads       *)
(* uAttributes and struct Light, the ibl variant the one that reads uSphere *)
(* and struct LightProperties.  The functions sRGBToLinear, LinearTosRGB,   *)
(* FresnelSchlick, GeometrySchlickGGX, GeometrySmith and DistributionGGX    *)
(* have the same text in both.                                              *)

ShaderVariants == {"grid", "ibl"}

\* vec4 sRGBToLinear(in vec4 value)
sRGBToLinear(value) ==
    LET channel(c) ==
            mix(pow(FAdd(FMul(c, Lit(94786730, 100000000)), Lit(5213270, 100000000)),
                    Lit(24, 10)),
                FMul(c, Lit(7739938, 100000000)),
                lessThanEqual(c, Lit(4045, 100000)))
    IN  <<channel(value[1]), channel(value[2]), channel(value[3]), value[4]>>

\* a LinearTosRGB with the exponent of a 2.2 gamma
LinearTosRGBGamma22(value) ==
    LET channel(c) ==
            mix(FSub(FMul(pow(c, Lit(45454, 100000)), Lit(1055, 1000)), Lit(55, 1000)),
                FMul(c, Lit(1292, 100)),
                lessThanEqual(c, Lit(31308, 10000000)))
    IN  <<channel(value[1]), channel(value[2]), channel(value[3]), value[4]>>

\* vec4 LinearTosRGB(in vec4 value)
LinearTosRGB(value) ==
    LET channel(c) ==
            mix(FSub(FMul(pow(c, Lit(41666, 100000)), Lit(1055, 1000)), Lit(55, 1000)),
                FMul(c, Lit(1292, 100)),
                lessThanEqual(c, Lit(31308, 10000000)))
    IN  <<channel(value[1]), channel(value[2]), channel(value[3]), value[4]>>

\* Schlick's approximation without the base reflectivity: the reflectance
\* rises from 0 at normal incidence instead of from F0
SchlickWithoutF0(cosTheta, F0) == vec3(pow(FSub(Scale, cosTheta), Lit(5, 1)))

\* vec3 FresnelSchlick(float cosTheta, vec3 F0)
FresnelSchlick(cosTheta, F0) ==
    VAdd(F0, VScale(VSub(vec3(Scale), F0), pow(FSub(Scale, cosTheta), Lit(5, 1))))

\* float GeometrySchlickGGX(float NdotV, float roughness)
GeometrySchlickGGX(NdotV, roughness) ==
    LET a == FAdd(roughness, Scale)
        kk == FDiv(FMul(a, a), Lit(8, 1))
    IN  FDiv(NdotV, FAdd(FMul(NdotV, FSub(Scale, kk)), kk))

\* float GeometrySmith(vec3 N, vec3 V, vec3 L, float roughness)
GeometrySmith(N, V, L, roughness) ==
    LET NdotV == FMax(dot(N, V), 0)
        NdotL == FMax(dot(N, L), 0)
    IN  FMul(GeometrySchlickGGX(NdotL, roughness), GeometrySchlickGGX(NdotV, roughness))

\* the GGX distribution of a given a2 and N.H
GGX(a2, NdotH) ==
    LET denom == FAdd(FMul(FMul(NdotH, NdotH), FSub(a2, Scale)), Scale)
    IN  FDiv(a2, FMul(FMul(PI, denom), denom))

\* float DistributionGGX(vec3 N, vec3 H, float roughness)
DistributionGGX(N, H, roughness) ==
    GGX(FMul(roughness, roughness), FMax(dot(N, H), 0))

\* vec3 RGBMToRGB(in vec4 rgbm, float rangeMultiplier)
RGBMToRGB(rgbm, rangeMultiplier) == VScale(VScale(rgb(rgbm), rgbm[4]), rangeMultiplier)

\* vec2 cartesianToPolar(vec3 cartesian)
cartesianToPolar(cartesian) == <<atan(cartesian[3], cartesian[1]), asin(cartesian[2])>>

\* diffuseUV = diffuseUV / vec2(PI, PI / 2.0) + vec2(0.5, 0.5)
RemapUV(polar) ==
    <<FAdd(FDiv(polar[1], PI), Lit(5, 10)),
      FAdd(FDiv(polar[2], FDiv(PI, Lit(2, 1))), Lit(5, 10))>>

----------------------------------------------------------------------------
(* Uniforms as the shader reads them.  A uniform the host never wrote holds *)
(* the value the program object gives it at link time: zero.                *)

ToVec(t) == <<ToFloat(t[1]), ToFloat(t[2]), ToFloat(t[3])>>

UniformInt(u, key) == IF Has(u, key) THEN u[key] ELSE 0

UniformFloat(u, key) == IF Has(u, key) THEN ToFloat(u[key]) ELSE 0

UniformVec3(u, key) == IF Has(u, key) THEN ToVec(u[key]) ELSE vec3(0)

\* a vec3 the host wrote as a field of one of its lights
UniformField(u, key, ls) ==
    IF Has(u, key) THEN ToVec(ls[u[key].light][u[key].field]) ELSE vec3(0)

\* the LIGHT_TYPE_* constants in the text of each fragment shader
ShaderLightType(v, name) ==
    IF v = "grid"
    THEN (IF name = "POINT" THEN 0 ELSE 1)
    ELSE (IF name = "DIRECTIONAL" THEN 0 ELSE 1)

\* LIGHT_TYPE_<name> under a define set
LIGHT_TYPE(v, defs, name) ==
    IF Has(defs, "LIGHT_TYPE_" \o name) THEN defs["LIGHT_TYPE_" \o name]
    ELSE ShaderLightType(v, name)

\* uLights[i]: struct Light of the grid variant, struct LightProperties of
\* the ibl variant (the grid variant's struct has no direction member)
ReadLight(v, u, ls, i) ==
    [type      |-> UniformInt(u, LightKey(v, i + 1, "type")),
     position  |-> UniformField(u, LightKey(v, i + 1, "position"), ls),
     direction |-> UniformField(u, LightKey(v, i + 1, "direction"), ls),
     color     |-> UniformVec3(u, LightKey(v, i + 1, "color")),
     intensity |-> UniformFloat(u, LightKey(v, i + 1, "intensity"))]

\* vec3 getLightDirection(Light light), grid variant
getLightDirection(light, defs, attributesPosition, vWsPosition) ==
    IF light.type = LIGHT_TYPE("grid", defs, "DIRECTIONAL")
    THEN normalize(light.position)
    ELSE normalize(VSub(VAdd(light.position, attributesPosition), vWsPosition))

\* vec3 get_light_dir(LightProperties light, vec3 wsPosition), ibl variant
get_light_dir(light, defs, wsPosition) ==
    IF light.type = LIGHT_TYPE("ibl", defs, "DIRECTIONAL") THEN normalize(light.direction)
    ELSE IF light.type = LIGHT_TYPE("ibl", defs, "POINT")
         THEN normalize(VSub(light.position, wsPosition))
    ELSE vec3(0)

\* vec3 getLightColor(Light light), grid variant
getLightColor(light) == VScale(rgb(sRGBToLinear(vec4(light.color, Scale))), light.intensity)

\* vec3 get_light_color(LightProperties light, vec3 wsPosition), ibl variant
get_light_color(light) == VScale(light.color, light.intensity)

\* the divisor of the specular term: denominator in the grid variant,
\* max(denominator, 0.001) in the ibl variant
SpecularDivisor(v, denominator) ==
    IF v = "grid" THEN denominator ELSE FMax(denominator, Lit(1, 1000))

----------------------------------------------------------------------------
(* main() of the fragment shaders, followed one step at a time: the         *)
(* statements before the light loop, the loop body in three steps, and the  *)
(* statements after the loop.                                               *)

\* the loop body up to radiance: the light read from uLights[f.i], L, H
LoopLight(f) ==
    LET light == ReadLight(f.v, f.uniforms, f.lights, f.i)
        L     == IF f.v = "grid"
                 THEN getLightDirection(light, f.defs,
                          UniformVec3(f.uniforms, PlacementKey(f.v)), f.vWsPosition)
                 ELSE get_light_dir(light, f.defs, f.vWsPosition)
    IN  [slot |-> f.i, light |-> light, L |-> L, H |-> normalize(VAdd(f.V, L)),
         radiance |-> IF f.v = "grid" THEN getLightColor(light) ELSE get_light_color(light)]

\* the Cook-Torrance part of the loop body: D, F, G and the specular term
LoopSpecular(f, t) ==
    LET D == DistributionGGX(f.N, t.H, f.roughness)
        F == FresnelSchlick(FMax(dot(t.H, f.V), 0), f.F0)
        G == GeometrySmith(f.N, f.V, t.L, f.roughness)
        numerator   == VScale(F, FMul(D, G))
        denominator == FMul(FMul(Lit(4, 1), FMax(dot(f.N, f.V), 0)), FMax(dot(f.N, t.L), 0))
        divisor     == SpecularDivisor(f.v, denominator)
    IN  [D |-> D, F |-> F, G |-> G, numerator |-> numerator, denominator |-> denominator,
         divisor |-> divisor, specular |-> VOver(numerator, divisor)]

\* the rest of the loop body: kD, the diffuse term and the light's contribution
LoopDiffuse(f, t) ==
    LET kD      == VScale(VSub(vec3(Scale), t.F), FSub(Scale, f.metallic))
        diffuse == VOver(VMul(kD, f.albedo), PI)
        NdotL   == FMax(dot(f.N, t.L), 0)
    IN  [kD |-> kD, diffuse |-> diffuse, NdotL |-> NdotL,
         contribution |-> VScale(VMul(VAdd(diffuse, t.specular), t.radiance), NdotL)]

\* the fragment's inputs: the uniform map and define set the host left at
\* the draw call, the host's lights, the interpolated varyings (vWsView is
\* vWsViewPosition in the grid variant, vWsViewDir in the ibl variant) and
\* the texel that texture(uEnvironment.diffuse, diffuseUV) returns
Fragment(v, ls, sph, g, normal, position, view, texel) ==
    [pc |-> "main", v |-> v, lights |-> ls,
     defs |-> SetLightDefines(v, EmptyMap, ls),
     uniforms |-> SphereEntries(v,
                      AssembleUniforms(v, ConstructedUniforms(v), g, NoTextures, ls,
                                       "ALEXS_APARTMENT"),
                      <<sph>>, 1),
     vWsNormal |-> normal, vWsPosition |-> position, vWsView |-> view, texel |-> texel,
     N |-> vec3(0), V |-> vec3(0), albedo |-> vec3(0), F0 |-> vec3(0),
     metallic |-> 0, roughness |-> 0, irradiance |-> vec3(0), i |-> 0, reads |-> {},
     term |-> <<>>, diffuseUV |-> <<>>, diffuseIBL |-> vec3(0), outFragColor |-> <<>>]

hostVars == <<variant, pc, initPc, rafPending, frame, stmt, k, updates, renders, returned,
              calls, drawn, gl, defines, tex, lights, spheres, numberOfSpheres, gui,
              currentEnvironment, uniforms>>

\* main() up to the light loop
fragmentMain ==
    /\ frag.pc = "main"
    /\ LET albedo == rgb(sRGBToLinear(vec4(UniformVec3(frag.uniforms, AlbedoKey(frag.v)), Scale)))
           metallic == UniformFloat(frag.uniforms, MetallicKey(frag.v))
       IN  frag' = [frag EXCEPT
                !.pc = "loop",
                !.N = normalize(frag.vWsNormal),
                !.V = IF frag.v = "grid"
                      THEN normalize(VSub(frag.vWsView, frag.vWsPosition))
                      ELSE normalize(frag.vWsView),
                !.albedo = albedo,
                !.metallic = metallic,
                !.roughness = UniformFloat(frag.uniforms, RoughnessKey(frag.v)),
                !.F0 = <<mix(Lit(4, 100), albedo[1], metallic),
                         mix(Lit(4, 100), albedo[2], metallic),
                         mix(Lit(4, 100), albedo[3], metallic)>>,
                !.irradiance = vec3(0),
                !.i = 0]
    /\ UNCHANGED hostVars

\* for (int i = 0; i < LIGHT_COUNT; ++i): the loop is entered and the body
\* runs up to radiance
loopLight ==
    /\ frag.pc = "loop"
    /\ frag.i < LIGHT_COUNT(frag.v, frag.defs)
    /\ frag' = [frag EXCEPT !.pc = "light",
                            !.term = <<LoopLight(frag)>>,
                            !.reads = @ \cup {frag.i}]
    /\ UNCHANGED hostVars

\* the loop body from D to specular
loopSpecular ==
    /\ frag.pc = "light"
    /\ frag' = [frag EXCEPT !.pc = "specular",
                            !.term = <<LoopSpecular(frag, frag.term[1]) @@ frag.term[1]>>]
    /\ UNCHANGED hostVars

\* the loop body from kS to irradiance +=, and ++i
loopAccumulate ==
    /\ frag.pc = "specular"
    /\ LET d == LoopDiffuse(frag, frag.term[1])
       IN  frag' = [frag EXCEPT !.pc = "loop",
                                !.term = <<d @@ frag.term[1]>>,
                                !.irradiance = VAdd(@, d.contribution),
                                !.i = @ + 1]
    /\ UNCHANGED hostVars

\* main() after the light loop
fragmentOutput ==
    /\ frag.pc = "loop"
    /\ frag.i >= LIGHT_COUNT(frag.v, frag.defs)
    /\ IF frag.v = "grid"
       THEN frag' = [frag EXCEPT !.pc = "done",
                                 !.outFragColor = vec4(frag.irradiance, Scale)]
       ELSE LET uv  == RemapUV(cartesianToPolar(frag.N))
                ibl == VMul(RGBMToRGB(frag.texel, Lit(6, 1)), frag.albedo)
            IN  frag' = [frag EXCEPT
                    !.pc = "done",
                    !.diffuseUV = uv,
                    !.diffuseIBL = ibl,
                    !.outFragColor = LinearTosRGB(vec4(VAdd(frag.irradiance, ibl), Scale))]
    /\ UNCHANGED hostVars

\* a colour taken through both transfer functions, in either order
convertColour ==
    /\ frag.pc = "convert"
    /\ frag' = [frag EXCEPT
            !.pc = "converted",
            !.linear = sRGBToLinear(frag.value),
            !.encoded = LinearTosRGB(frag.value),
            !.viaLinear = LinearTosRGB(sRGBToLinear(frag.value)),
            !.viaEncoded = sRGBToLinear(LinearTosRGB(frag.value))]
    /\ UNCHANGED hostVars

NextShader ==
    \/ fragmentMain
    \/ loopLight
    \/ loopSpecular
    \/ loopAccumulate
    \/ fragmentOutput
    \/ convertColour

----------------------------------------------------------------------------
(* The fragments and colours explored.                                      *)

\* a light of the host with its vector: PointLight has positionWS,
\* DirectionalLight has directionWS
SceneLight(kind, vec, color, intensity) ==
    [kind |-> kind, color |-> color, intensity |-> intensity,
     positionWS  |-> IF kind = "Point" THEN vec ELSE CtorDefault,
     directionWS |-> IF kind = "Directional" THEN vec ELSE CtorDefault]

\* directions of directional lights: along the normal, grazing, opposite to
\* the viewer, oblique
LightDirections ==
    {<<Num(0), Num(0), Num(1)>>, <<Num(1), Num(0), Num(0)>>,
     <<Num(0), Num(0), Num(-1)>>, <<Rat(3, 2), Num(0), Num(2)>>}

\* positions of point lights
LightPositions == {<<Num(0), Num(0), Num(2)>>, <<Num(2), Num(0), Rat(1, 2)>>}

\* light colours: white, and one with a channel strictly between 0 and 1
LightColours == {One3, <<Num(0), Rat(1, 2), Num(1)>>}

\* this._lights of the fragments explored: none, one light of either kind
\* (white, and coloured for some), a directional and a point light together
LightLists ==
    {<<>>}
    \cup {<<SceneLight("Directional", d, One3, Num(1))>> : d \in LightDirections}
    \cup {<<SceneLight("Directional", <<Num(0), Num(0), Num(1)>>, c, Num(1))>> :
              c \in LightColours}
    \cup {<<SceneLight("Point", p, One3, Rat(1, 2))>> : p \in LightPositions}
    \cup {<<SceneLight("Point", <<Num(0), Num(0), Num(2)>>, c, Rat(1, 2))>> :
              c \in LightColours}
    \cup {<<SceneLight("Directional", <<Num(0), Num(0), Num(1)>>, One3, Num(1)),
            SceneLight("Point", <<Num(0), Num(0), Num(2)>>, One3, Rat(1, 2))>>}

\* metallic and roughness of the sphere drawn
MetallicValues == {Num(0), Rat(1, 2), Num(1)}

RoughnessValues == {Rat(1, 2), Num(1)}

\* the sphere's placement, and the fragment's offset from it
ObjectPosition == <<Num(1), Num(0), Num(0)>>

SurfaceOffset == <<0, 0, Lit(5, 10)>>

\* the sphere record of each variant
ShaderSphere(v, a, m, r) ==
    IF v = "grid"
    THEN [position |-> ObjectPosition, albedo |-> One3, metallic |-> m, roughness |-> r]
    ELSE [modelMatrix |-> ObjectPosition,
          material |-> [albedo |-> a, metallic |-> m, roughness |-> r]]

\* interpolated normals: up; along -x (azimuth PI) and the pole (elevation
\* PI/2), which matter to the environment lookup of the ibl variant
Up == <<0, 0, Scale>>

IblNormals == {<<0 - Scale, 0, 0>>, <<0, Scale, 0>>}

\* vectors from the fragment to the camera: along the normal, grazing
ToCamera == {<<0, 0, 2 * Scale>>, <<2 * Scale, 0, 0>>}

\* RGBM texels of the diffuse environment map
Texels == {<<Lit(5, 10), Lit(25, 100), Scale, Lit(25, 100)>>}

\* the fragment of the sphere drawn with these inputs
FragmentOf(v, ls, a, g, m, r, n, c, t) ==
    Fragment(v, ls, ShaderSphere(v, a, m, r), GuiProperties(g), n,
             VAdd(ToVec(ObjectPosition), SurfaceOffset),
             IF v = "grid" THEN VAdd(VAdd(ToVec(ObjectPosition), SurfaceOffset), c) ELSE c,
             t)

Fragments ==
    {FragmentOf(v, ls, a, g, m, r, Up, c, t) :
        v \in ShaderVariants, ls \in LightLists, a \in RandomColours, g \in GuiColours,
        m \in MetallicValues, r \in RoughnessValues, c \in ToCamera, t \in Texels}
    \cup
    {FragmentOf("ibl", ls, a, <<255, 255, 255>>, Num(0), Num(1), n, <<0, 0, 2 * Scale>>, t) :
        ls \in {<<>>, <<SceneLight("Directional", <<Num(0), Num(0), Num(1)>>, One3, Num(1))>>},
        a \in RandomColours, n \in IblNormals, t \in Texels}

\* colour channels around the two thresholds and across [0, 1]
ChannelValues ==
    {0, Lit(1, 1000), Lit(31308, 10000000), Lit(31309, 10000000), Lit(1, 100),
     Lit(4045, 100000), Lit(4046, 100000), Lit(2, 10), Lit(5, 10), Lit(8, 10), Scale}

AlphaValues == {0, Lit(5, 10), Scale}

Colours ==
    {[pc |-> "convert", value |-> <<x, y, x, a>>,
      linear |-> <<>>, encoded |-> <<>>, viaLinear |-> <<>>, viaEncoded |-> <<>>] :
        x \in ChannelValues, y \in {Lit(3, 10), Lit(4045, 100000)}, a \in AlphaValues}

InitShader ==
    \E f \in Fragments \cup Colours :
        /\ Constructed(IF f.pc = "main" THEN f.v ELSE "grid", <<>>, <<255, 255, 255>>)
        /\ frag = f

SpecShader == InitShader /\ [][NextShader]_vars

----------------------------------------------------------------------------
(* Properties of the fragment shaders.                                      *)

\* the loop body has run to its end for the light last read
Accumulated == frag.pc \in {"loop", "done"} /\ frag.term # <<>>

\* C11: for metallic = 1 the diffuse term computed in the light loop is exactly
\* zero in every channel, whatever the albedo, the roughness, N, V and L, in
\* both fragment shaders
C11_DiffuseZeroAtFullMetallic ==
    (Accumulated /\ frag.metallic = Scale) => frag.term[1].diffuse = vec3(0)

NormalIncidence ==
    /\ Accumulated
    /\ Len(frag.lights) = 1
    /\ frag.term[1].L = frag.N
    /\ frag.V = frag.N
    /\ frag.term[1].H = frag.N
    /\ dot(frag.N, frag.N) = Scale
    /\ frag.roughness = Scale
    /\ frag.metallic = 0

\* D = 1/PI, specular <= D.G.F/4 per channel, and the irradiance is
\* (diffuse + specular) . radiance
NormalIncidenceTerms ==
    LET t == frag.term[1]
    IN  /\ t.D = FDiv(Scale, PI)
        /\ \A c \in 1..3 : /\ Defined(t.specular[c])
                           /\ t.specular[c] <= FDiv(FMul(FMul(t.D, t.G), t.F[c]), Lit(4, 1))
        /\ frag.irradiance = VMul(VAdd(t.diffuse, t.specular), t.radiance)

\* C13 as stated: at normal incidence with roughness 1 and metallic 0, D is
\* 1/PI, the specular term is at most D.G.F/4, the irradiance is
\* (diffuse + specular) . radiance, and the diffuse part is albedo/PI
C13_DiffuseIsAlbedoOverPi ==
    NormalIncidence =>
        /\ NormalIncidenceTerms
        /\ frag.term[1].diffuse = VOver(frag.albedo, PI)

\* C13: at normal incidence with roughness 1 and metallic 0, D is 1/PI, the
\* specular term is at most D.G.F/4, the irradiance is
\* (diffuse + specular) . radiance, and the diffuse part is
\* (1 - F) . albedo/PI with F = F0 = 0.04, i.e. 0.96 . albedo/PI
C13_NormalIncidence ==
    NormalIncidence =>
        /\ NormalIncidenceTerms
        /\ frag.term[1].F = vec3(Lit(4, 100))
        /\ frag.term[1].diffuse = VOver(VScale(frag.albedo, Lit(96, 100)), PI)

C13_Witness ==
    /\ NormalIncidence
    /\ frag.v = "grid"
    /\ frag.albedo[1] > 0
    /\ frag.irradiance[1] > 0

\* two floats differ by at most 1e-4
Within(x, y) == Defined(x) /\ Defined(y) /\ Abs(x - y) <= Lit(1, 10000)

\* C14: for a colour with channels in [0, 1], sRGBToLinear(LinearTosRGB(x))
\* and LinearTosRGB(sRGBToLinear(x)) are within 1e-4 of x on every channel,
\* the branch thresholds 0.04045 and 0.0031308 included, and both functions
\* pass alpha through unchanged
C14_TransferRoundTrip ==
    frag.pc = "converted" =>
        /\ \A c \in 1..3 : /\ Within(frag.viaLinear[c], frag.value[c])
                           /\ Within(frag.viaEncoded[c], frag.value[c])
        /\ frag.linear[4] = frag.value[4]
        /\ frag.encoded[4] = frag.value[4]
        /\ frag.viaLinear[4] = frag.value[4]
        /\ frag.viaEncoded[4] = frag.value[4]

C14_Witness ==
    /\ frag.pc = "converted"
    /\ frag.value[1] = Lit(31308, 10000000)
    /\ frag.value[2] = Lit(4045, 100000)
    /\ frag.value[4] = Lit(5, 10)
    /\ frag.linear[2] = FMul(Lit(4045, 100000), Lit(7739938, 100000000))
    /\ frag.encoded[1] = FMul(Lit(31308, 10000000), Lit(1292, 100))
    /\ frag.viaLinear # frag.value

\* C15: DistributionGGX returns a2 / (PI ((N.H)^2 (a2 - 1) + 1)^2) with
\* a2 the fourth power of roughness (alpha = roughness^2), for every
\* roughness and every N.H with a defined half vector
C15_GGXAlphaIsRoughnessSquared ==
    (Accumulated /\ VDefined(frag.term[1].H)) =>
        LET alpha == FMul(frag.roughness, frag.roughness)
        IN  Within(frag.term[1].D,
                   GGX(FMul(alpha, alpha), FMax(dot(frag.N, frag.term[1].H), 0)))

\* C16: in both variants the specular term of a light with a defined
\* direction is D.G.F divided by max(4 (N.V) (N.L), 0.001), a divisor that
\* is never below 0.001, grazing angles (N.L = 0 or N.V = 0) included
C16_SpecularDivisorFloored ==
    (Accumulated /\ VDefined(frag.term[1].L)) =>
        LET t == frag.term[1]
        IN  /\ t.divisor = FMax(FMul(FMul(Lit(4, 1), FMax(dot(frag.N, frag.V), 0)),
                                     FMax(dot(frag.N, t.L), 0)),
                                Lit(1, 1000))
            /\ t.divisor >= Lit(1, 1000)
            /\ t.specular = VOver(VScale(t.F, FMul(t.D, t.G)), t.divisor)

\* C17: in both variants the radiance of a light is the sRGB-to-linear
\* transform of its colour, per channel, times its intensity
C17_RadianceIsLinearised ==
    Accumulated =>
        LET t == frag.term[1]
        IN  t.radiance = VScale(rgb(sRGBToLinear(vec4(t.light.color, Scale))),
                                t.light.intensity)

\* the host's light whose term the loop evaluated last
HostLight == frag.lights[frag.term[1].slot + 1]

\* C18: within each variant the host's LightType values are the shader's
\* LIGHT_TYPE_* values, and the light at every index reaches its branch: a
\* DirectionalLight gives L = normalize(direction), a PointLight gives
\* L = normalize(position - surface position), with the object's position
\* added to the light's in the grid variant
C18_LightReachesItsBranch ==
    /\ \A v \in ShaderVariants, name \in {"DIRECTIONAL", "POINT"} :
           LightType(v, name) = ShaderLightType(v, name)
    /\ Accumulated =>
        LET t == frag.term[1]
            l == HostLight
        IN  /\ t.light.type = ShaderLightType(frag.v, IF l.kind = "Directional"
                                                      THEN "DIRECTIONAL" ELSE "POINT")
            /\ l.kind = "Directional" => t.L = normalize(ToVec(l.directionWS))
            /\ l.kind = "Point" =>
                   t.L = normalize(VSub(IF frag.v = "grid"
                                        THEN VAdd(ToVec(l.positionWS), ToVec(ObjectPosition))
                                        ELSE ToVec(l.positionWS),
                                        frag.vWsPosition))

C18_Witness ==
    /\ Accumulated
    /\ frag.v = "grid"
    /\ Len(frag.lights) = 2
    /\ frag.term[1].slot = 1
    /\ HostLight.kind = "Point"
    /\ frag.lights[1].kind = "Directional"
    /\ frag.term[1].L # normalize(VSub(ToVec(HostLight.positionWS), frag.vWsPosition))

\* C19: the remapped texture coordinate of the diffuse environment lookup
\* lies in [0, 1] on both axes wherever cartesianToPolar defines it, the
\* azimuths -PI and PI and the elevations -PI/2 and PI/2 landing on 0 and 1
C19_DiffuseUVInUnitSquare ==
    (frag.pc = "done" /\ frag.v = "ibl") =>
        \A c \in 1..2 :
            Defined(frag.diffuseUV[c]) =>
                /\ 0 <= frag.diffuseUV[c]
                /\ frag.diffuseUV[c] <= Scale

----------------------------------------------------------------------------
(* The environment textures at a draw call.                                 *)

\* C20: in the ibl variant, at every draw call the uEnvironment.diffuse and
\* uEnvironment.specular entries of the uniform map are the textures of the
\* currently selected environment, never those of one selected before
C20_EnvironmentTexturesCurrent ==
    (variant = "ibl" /\ HasDraw) =>
        \A w \in {"diffuse", "specular"} :
            Has(drawn[1].uniforms, "uEnvironment." \o w) =>
                drawn[1].uniforms["uEnvironment." \o w] = EnvSlot(currentEnvironment, w)

----------------------------------------------------------------------------
(* The vertex shaders of src/shader/pbr.vert.ts and the fragment they feed. *)
(* A fragment at a vertex receives that vertex's outputs as its varyings     *)
(* (interpolation weight 1), so a vertex invocation turns into the fragment  *)
(* invocation of the same record.                                            *)

\* a vertex invocation: the uniforms and defines of the draw call as for a
\* fragment, the vertex attributes, and the camera position the host wrote
\* to uCamera.position
Vertex(v, ls, sph, in_position, in_normal, cameraPosition, texel) ==
    [pc |-> "vertex", in_position |-> in_position, in_normal |-> in_normal,
     cameraPosition |-> cameraPosition]
    @@ Fragment(v, ls, sph, GuiProperties(<<255, 255, 255>>),
                vec3(0), vec3(0), vec3(0), texel)

\* main() of the vertex shader of each variant: the three varyings.  A model
\* matrix is the translation the host built it from.
vertexMain ==
    /\ frag.pc = "vertex"
    /\ LET placement == UniformVec3(frag.uniforms, PlacementKey(frag.v))
           positionWorld == VAdd(frag.in_position, placement)
       IN  frag' = [frag EXCEPT
                !.pc = "main",
                !.vWsPosition = positionWorld,
                !.vWsNormal =
                    IF frag.v = "grid"
                    THEN VAdd(VScale(normalize(frag.in_normal), Lit(5, 10)), vec3(Lit(5, 10)))
                    ELSE normalize(frag.in_normal),
                !.vWsView =
                    IF frag.v = "grid"
                    THEN VSub(frag.cameraPosition, positionWorld)
                    ELSE normalize(VSub(frag.cameraPosition, positionWorld))]
    /\ UNCHANGED hostVars

\* the vertex, then the fragment shader of the same program
NextPipeline ==
    \/ vertexMain
    \/ fragmentMain
    \/ loopLight
    \/ loopSpecular
    \/ loopAccumulate
    \/ fragmentOutput

\* vertices of a sphere of radius 1/2 placed at ObjectPosition: two points of
\* its surface, normals of length 1 and 2, cameras at the constructor's
\* position and where the keyboard moves them
Vertices ==
    LET positions == {<<0, 0, Lit(5, 10)>>, <<Lit(5, 10), 0, 0>>}
        normals   == {<<0, 0, Scale>>, <<Scale, 0, 0>>, <<0 - Scale, 0, 0>>,
                      <<0, 0, 2 * Scale>>}
        cameras   == {<<0, 0, 2 * Scale>>, <<2 * Scale, 0, Lit(5, 10)>>,
                      <<0 - Lit(5, 10), 0 - Lit(5, 10), 2 * Scale>>}
        lightLists == {<<>>,
                       <<SceneLight("Directional", <<Num(0), Num(0), Num(1)>>, One3, Num(1))>>}
    IN  {Vertex(v, ls, ShaderSphere(v, a, Num(0), Num(1)), p, n, c, t) :
            v \in ShaderVariants, ls \in lightLists, a \in RandomColours,
            p \in positions, n \in normals, c \in cameras, t \in Texels}

InitPipeline ==
    \E f \in Vertices :
        /\ Constructed(f.v, <<>>, <<255, 255, 255>>)
        /\ frag = f

SpecPipeline == InitPipeline /\ [][NextPipeline]_vars

----------------------------------------------------------------------------
(* Properties of the vertex-to-fragment pipeline.                           *)

\* fragmentMain has run on the varyings of a vertex
Shaded == frag.pc \in {"loop", "light", "specular", "done"} /\ "in_normal" \in DOMAIN frag

\* two vectors differ by at most 1e-4 in every component
VWithin(a, b) == \A c \in 1..3 : Within(a[c], b[c])

\* C21: in both shader pairs the view vector V of the BRDF is the unit
\* vector from the surface's world position to the camera position,
\* normalize(camera position - surface position)
C21_ViewVectorTowardsCamera ==
    Shaded => VWithin(frag.V, normalize(VSub(frag.cameraPosition, frag.vWsPosition)))

\* C22: in both shader pairs the shading normal N is the unit vector in the
\* direction of the vertex normal, normalize(in_normal)
C22_ShadingNormalIsVertexNormal ==
    Shaded => VWithin(frag.N, normalize(frag.in_normal))

=============================================================================
